---- MODULE Spec2Model ----
(***************************************************************************)
(* Client bindings for the secrets endpoints of the management API          *)
(* (pkg/bindings/secrets/secrets.go): List, Inspect, Remove, Create.        *)
(*                                                                          *)
(* Each invocation runs on its own goroutine and is modelled step by step:  *)
(*   Call -> GetClient -> [ToParams] -> DoRequest -> Process -> done.       *)
(* bindings.GetClient, Connection.DoRequest, APIResponse.Process and the    *)
(* options' ToParams live in other packages of the repository; they and the *)
(* server are modelled from the specification (sections 4.1-4.3, 6, 7).     *)
(***************************************************************************)
EXTENDS Naturals, Sequences, FiniteSets, TLC

VARIABLES call, store, nextID, ncalls, known

vars == <<call, store, nextID, ncalls, known>>

\* ------------------------------------------------------------------ bounds

\* Total number of invocations made by all callers together.
MaxCalls == 3

\* Number of invocations of the single caller of SpecSeq.
MaxSeqCalls == 4

\* The goroutines calling into the package.
Callers == {"c1", "c2"}

\* ------------------------------------------------------------------ values

\* Go's nil (pointer, slice, error, io.Reader, url.Values).
Nil == [type |-> "nil"]

\* Identifiers are sequences of characters; two of them hold characters that
\* are reserved in a URL path.
Names == { <<"d", "b">>, <<"a", "/", "b">> }

\* The payload a caller streams to Create.
Data == { <<"t", "o", "p">> }

\* An io.Reader over data d, of which pos bytes have been consumed.
Reader(d, pos) == [type |-> "reader", data |-> d, pos |-> pos]

ListOptionsSet ==
    { Nil, [type |-> "ListOptions", filters |-> {<<"name", <<"f", "o", "o">>>>}] }

\* driver "\\xff" stands for a value the parameter conversion rejects.
CreateOptionsSet ==
    {Nil}
      \cup { [type |-> "CreateOptions", name |-> n, driver |-> "file"] : n \in Names }
      \cup { [type |-> "CreateOptions", name |-> <<"d", "b">>, driver |-> "\\xff"] }

ConnErr == [type |-> "connection", msg |-> "context holds no client"]
TransportErr == [type |-> "transport", msg |-> "request could not be completed"]
EncodeErr == [type |-> "encode", msg |-> "option cannot be converted"]
DecodeErr == [type |-> "decode", msg |-> "cannot unmarshal into target"]

APIError(code, message) == [type |-> "api", code |-> code, message |-> message]

\* entities.SecretInfoReport and entities.SecretCreateReport, as decoded.
SecretInfoReport(id, name) == [type |-> "SecretInfoReport", ID |-> id, Name |-> name]
SecretCreateReport(id) == [type |-> "SecretCreateReport", ID |-> id]
Slice(items) == [type |-> "slice", items |-> items]

\* ------------------------------------------------------------------ JSON

JStr(s) == [t |-> "string", s |-> s]
JNum(n) == [t |-> "number", n |-> n]
JObj(m) == [t |-> "object", m |-> m]
JArr(items) == [t |-> "array", items |-> items]

\* A string field of a JSON object decoded into a Go string field: a missing
\* key leaves the zero value, a value of another type is skipped.
StringField(j, key) ==
    IF key \in DOMAIN j.m /\ j.m[key].t = "string" THEN j.m[key].s ELSE <<>>

FieldsFit(j, keys) == \A k \in keys : k \in DOMAIN j.m => j.m[k].t = "string"

\* json.Unmarshal into *SecretInfoReport: unknown keys are ignored.
DecodeInfo(j) ==
    IF j.t # "object" THEN [v |-> Nil, ok |-> FALSE]
    ELSE [v |-> SecretInfoReport(StringField(j, "ID"), StringField(j, "Name")),
          ok |-> FieldsFit(j, {"ID", "Name"})]

DecodeCreate(j) ==
    IF j.t # "object" THEN [v |-> Nil, ok |-> FALSE]
    ELSE [v |-> SecretCreateReport(StringField(j, "ID")), ok |-> FieldsFit(j, {"ID"})]

\* json.Unmarshal into []*SecretInfoReport: every element is decoded as far as
\* it goes, and the earliest mismatch is reported after the whole array.
DecodeList(j) ==
    IF j.t # "array" THEN [v |-> Nil, ok |-> FALSE]
    ELSE [v |-> Slice([i \in 1..Len(j.items) |-> DecodeInfo(j.items[i]).v]),
          ok |-> \A i \in 1..Len(j.items) : DecodeInfo(j.items[i]).ok]

Decode(kind, j) ==
    CASE kind = "list" -> DecodeList(j)
      [] kind = "info" -> DecodeInfo(j)
      [] kind = "create" -> DecodeCreate(j)

\* ------------------------------------------------------------------ paths

RECURSIVE Flatten(_)
Flatten(ss) == IF ss = <<>> THEN <<>> ELSE Head(ss) \o Flatten(Tail(ss))

EscapeChar(ch) ==
    CASE ch = "/" -> <<"%", "2", "F">>
      [] ch = "%" -> <<"%", "2", "5">>
      [] OTHER -> <<ch>>

\* url.PathEscape
PathEscape(s) == Flatten([i \in 1..Len(s) |-> EscapeChar(s[i])])

RECURSIVE PathUnescape(_)
PathUnescape(s) ==
    IF s = <<>> THEN <<>>
    ELSE IF Head(s) = "%" /\ Len(s) >= 3
         THEN (IF s[2] = "2" /\ s[3] = "F" THEN <<"/">> ELSE <<"%">>)
                \o PathUnescape(SubSeq(s, 4, Len(s)))
         ELSE <<Head(s)>> \o PathUnescape(Tail(s))

\* fmt.Sprintf(endpoint, values...): each "%s" takes the next value.
RECURSIVE Sprintf(_, _)
Sprintf(endpoint, values) ==
    IF endpoint = <<>> THEN <<>>
    ELSE IF Head(endpoint) = "%s"
         THEN (IF values = <<>> THEN <<"%!s(MISSING)">> ELSE Head(values))
                \o Sprintf(Tail(endpoint), IF values = <<>> THEN <<>> ELSE Tail(values))
         ELSE <<Head(endpoint)>> \o Sprintf(Tail(endpoint), values)

\* The segments of a path, split at "/" (the leading "/" opens the first).
RECURSIVE Split(_, _)
Split(path, cur) ==
    IF path = <<>> THEN <<cur>>
    ELSE IF Head(path) = "/" THEN <<cur>> \o Split(Tail(path), <<>>)
         ELSE Split(Tail(path), Append(cur, Head(path)))

Segments(path) == Tail(Split(path, <<>>))

\* ------------------------------------------------------------------ transport

\* url.Values
Params(kv) == [type |-> "params", kv |-> kv]

\* The options' ToParams: a flat mapping of parameter name to value; absent
\* options give absent parameters; a value that cannot be converted fails.
ToParams(options) ==
    CASE options = Nil -> [params |-> Nil, err |-> Nil]
      [] options.type = "ListOptions" -> [params |-> Params(options.filters), err |-> Nil]
      [] options.type = "CreateOptions" ->
            IF options.driver = "\\xff"
            THEN [params |-> Nil, err |-> EncodeErr]
            ELSE [params |-> Params({<<"name", options.name>>,
                                     <<"driver", <<options.driver>>>>}),
                  err |-> Nil]

\* What Connection.DoRequest puts on the wire for its arguments: the path
\* values are escaped and substituted into the endpoint, the parameters
\* become the query string (none when there are none), the body is whatever
\* the reader still yields.
WireRequest(req) ==
    [method |-> req.method,
     path |-> Sprintf(req.endpoint,
                      [i \in 1..Len(req.pathValues) |-> PathEscape(req.pathValues[i])]),
     query |-> IF req.params = Nil \/ req.params.kv = {}
               THEN Nil
               ELSE Params({<<p[1], PathEscape(p[2])>> : p \in req.params.kv}),
     body |-> IF req.body = Nil THEN <<>>
              ELSE SubSeq(req.body.data, req.body.pos + 1, Len(req.body.data))]

\* ------------------------------------------------------------------ server

StatusOK == 200
StatusNoContent == 204
StatusBadRequest == 400
StatusNotFound == 404
StatusInternalServerError == 500

Response(status, body) == [type |-> "response", status |-> status, body |-> body]

ErrorBody(code, message) ==
    JObj([cause |-> JStr(message), message |-> JStr(message), response |-> JNum(code)])

ErrorResponse(code, message) == Response(code, ErrorBody(code, message))

InfoBody(st, n) ==
    JObj([ID |-> JStr(st[n].id), Name |-> JStr(n), CreatedAt |-> JStr(<<"now">>)])

\* The stored names in the order the server lists them (oldest first).
RECURSIVE Listing(_, _)
Listing(st, names) ==
    IF names = {} THEN <<>>
    ELSE LET n == CHOOSE x \in names : \A y \in names : st[x].id[1] <= st[y].id[1]
         IN <<n>> \o Listing(st, names \ {n})

QueryValues(w, key) ==
    IF w.query = Nil THEN {}
    ELSE {PathUnescape(p[2]) : p \in {q \in w.query.kv : q[1] = key}}

Same(st, id, resp) == [store |-> st, nextID |-> id, resp |-> resp]

ServeList(st, id, w) ==
    LET wanted == QueryValues(w, "name")
        shown == IF wanted = {} THEN DOMAIN st ELSE DOMAIN st \cap wanted
        names == Listing(st, shown)
    IN Same(st, id, Response(StatusOK,
                             JArr([i \in 1..Len(names) |-> InfoBody(st, names[i])])))

ServeInspect(st, id, n) ==
    IF n \in DOMAIN st
    THEN Same(st, id, Response(StatusOK, InfoBody(st, n)))
    ELSE Same(st, id, ErrorResponse(StatusNotFound, "no such secret"))

ServeRemove(st, id, n) ==
    IF n \in DOMAIN st
    THEN Same([m \in DOMAIN st \ {n} |-> st[m]], id,
              Response(StatusNoContent, [t |-> "none"]))
    ELSE Same(st, id, ErrorResponse(StatusNotFound, "no such secret"))

ServeCreate(st, id, w) ==
    LET given == QueryValues(w, "name")
    IN IF given = {} THEN Same(st, id, ErrorResponse(StatusBadRequest, "secret needs a name"))
       ELSE LET n == CHOOSE x \in given : TRUE
            IN IF w.body = <<>>
               THEN Same(st, id, ErrorResponse(StatusBadRequest, "secret data is empty"))
               ELSE IF n \in DOMAIN st
               THEN Same(st, id, ErrorResponse(StatusInternalServerError, "secret name in use"))
               ELSE [store |-> [m \in DOMAIN st \cup {n} |->
                                  IF m = n THEN [id |-> <<id>>, data |-> w.body] ELSE st[m]],
                     nextID |-> id + 1,
                     resp |-> Response(StatusOK, JObj([ID |-> JStr(<<id>>)]))]

\* The server's routes.
Serve(st, id, w) ==
    LET segs == Segments(w.path)
    IN CASE w.method = "GET" /\ segs = << <<"secrets">>, <<"json">> >> ->
              ServeList(st, id, w)
         [] w.method = "GET" /\ Len(segs) = 3 /\ segs[1] = <<"secrets">>
                /\ segs[3] = <<"json">> ->
              ServeInspect(st, id, PathUnescape(segs[2]))
         [] w.method = "POST" /\ segs = << <<"secrets">>, <<"create">> >> ->
              ServeCreate(st, id, w)
         [] w.method = "DELETE" /\ Len(segs) = 2 /\ segs[1] = <<"secrets">> ->
              ServeRemove(st, id, PathUnescape(segs[2]))
         [] OTHER -> Same(st, id, ErrorResponse(StatusNotFound, "no such route"))

\* A server of another version: a successful answer whose body does not fit
\* the client's types (a number where a string or an object is expected).
Skewed(resp) ==
    IF resp.status # StatusOK THEN resp
    ELSE IF resp.body.t = "array"
         THEN Response(resp.status, JArr(Append(resp.body.items, JNum(0))))
         ELSE Response(resp.status,
                       JObj([k \in DOMAIN resp.body.m |->
                               IF k = "ID" THEN JNum(0) ELSE resp.body.m[k]]))

\* ------------------------------------------------------------------ Process

IsSuccess(resp) == resp.status >= 200 /\ resp.status < 300

\* APIResponse.Process(target): on a success status the body is decoded into
\* the target (kind "none": no target, nothing is decoded); otherwise the
\* error payload becomes the error. v is the target's value before the call;
\* a body that fits only in part leaves the part that fits in the target.
ProcessResponse(resp, kind, v) ==
    IF IsSuccess(resp)
    THEN IF kind = "none" THEN [v |-> v, err |-> Nil]
         ELSE LET d == Decode(kind, resp.body)
              IN [v |-> IF d.v = Nil THEN v ELSE d.v,
                  err |-> IF d.ok THEN Nil ELSE DecodeErr]
    ELSE IF resp.body.t = "object" /\ {"message", "response"} \subseteq DOMAIN resp.body.m
         THEN [v |-> v, err |-> APIError(resp.body.m.response.n, resp.body.m.message.s)]
         ELSE [v |-> v, err |-> APIError(resp.status, "unexpected response")]

\* ------------------------------------------------------------------ secrets.go

Ops == {"List", "Inspect", "Remove", "Create"}

\* The arguments of conn.DoRequest(body, method, endpoint, params, header,
\* pathValues...), as each function passes them.
Request(body, method, endpoint, params, pathValues) ==
    [body |-> body, method |-> method, endpoint |-> endpoint, params |-> params,
     header |-> Nil, pathValues |-> pathValues]

ListRequest(options) ==
    Request(Nil, "GET", <<"/", "secrets", "/", "json">>, Nil, <<>>)

\* Inspect asking for the secret itself instead of its description.
InspectRequestNoSuffix(nameOrID) ==
    Request(Nil, "GET", <<"/", "secrets", "/", "%s">>, Nil, <<nameOrID>>)

InspectRequest(nameOrID) ==
    Request(Nil, "GET", <<"/", "secrets", "/", "%s", "/", "json">>, Nil, <<nameOrID>>)

\* Remove issuing its delete on the inspect endpoint.
RemoveRequestOnInspectPath(nameOrID) ==
    Request(Nil, "DELETE", <<"/", "secrets", "/", "%s", "/", "json">>, Nil, <<nameOrID>>)

RemoveRequest(nameOrID) ==
    Request(Nil, "DELETE", <<"/", "secrets", "/", "%s">>, Nil, <<nameOrID>>)

\* Create dropping the encoded options, as a call passing nil would.
CreateRequestNoParams(reader, params) ==
    Request(reader, "POST", <<"/", "secrets", "/", "create">>, Nil, <<>>)

CreateRequest(reader, params) ==
    Request(reader, "POST", <<"/", "secrets", "/", "create">>, params, <<>>)

RequestOf(rec) ==
    CASE rec.op = "List" -> ListRequest(rec.options)
      [] rec.op = "Inspect" -> InspectRequest(rec.nameOrID)
      [] rec.op = "Remove" -> RemoveRequest(rec.nameOrID)
      [] rec.op = "Create" -> CreateRequest(rec.reader, rec.params)

\* The target each function hands to response.Process.
ProcessTarget(op) ==
    CASE op = "List" -> "list"
      [] op = "Inspect" -> "info"
      [] op = "Remove" -> "none"
      [] op = "Create" -> "create"

\* A result variable declared at package level: one for all invocations.
SharedResultVar(c) == "c1"

\* The variable an invocation declares for its result (secrs, inspect,
\* create): a local of the invocation itself.
ResultVar(c) == c

Unknown == [st |-> "unknown"]
Absent == [st |-> "absent"]
Removed == [st |-> "removed"]
Present(id) == [st |-> "present", id |-> id]

\* The record of caller c's invocation: its arguments, its locals, what it
\* returned (ret), and a log of what it did (sent, connErr, reqErr, nproc).
Idle ==
    [pc |-> "idle", op |-> "none", nameOrID |-> <<>>, options |-> Nil, reader |-> Nil,
     params |-> Nil, response |-> Nil, v |-> Nil, ret |-> Nil,
     sent |-> <<>>, connErr |-> Nil, reqErr |-> Nil, fault |-> "none", nproc |-> 0]

Invocations ==
    { [op |-> "List", nameOrID |-> <<>>, options |-> o, reader |-> Nil] : o \in ListOptionsSet }
      \cup { [op |-> o, nameOrID |-> n, options |-> Nil, reader |-> Nil] :
               o \in {"Inspect", "Remove"}, n \in Names }
      \cup { [op |-> "Create", nameOrID |-> <<>>, options |-> o, reader |-> r] :
               o \in CreateOptionsSet, r \in {Nil} \cup {Reader(d, 0) : d \in Data} }

Returned(result, err) == [type |-> "return", result |-> result, err |-> err]

\* The connection error wrapped into a new error.
OnClientErrWrapped(rec, err) ==
    [rec EXCEPT !.pc = "done",
                !.ret = Returned(Nil, [type |-> "wrapped", msg |-> "secrets", cause |-> err])]

\* if err != nil { return nil, err } after bindings.GetClient.
OnClientErr(rec, err) ==
    [rec EXCEPT !.pc = "done", !.ret = Returned(Nil, err)]

\* if err != nil { return nil, err } after options.ToParams (Create).
OnParamsErr(rec, err) ==
    [rec EXCEPT !.pc = "done", !.ret = Returned(Nil, err)]

\* A failed request issued once more instead of being reported.
OnRequestErrRetry(rec, v, err) == [rec EXCEPT !.pc = "DoRequest"]

\* if err != nil { return secrs, err } after conn.DoRequest: List and Inspect
\* return their result variable (v), Create returns nil, Remove only the error.
OnRequestErr(rec, v, err) ==
    [rec EXCEPT !.pc = "done",
                !.ret = Returned(IF rec.op \in {"List", "Inspect"} THEN v ELSE Nil, err)]

\* Remove treating "no such secret" as done.
OnProcessedIgnoreNotFound(rec, out) ==
    [rec EXCEPT !.pc = "done",
                !.ret = Returned(IF rec.op = "Remove" THEN Nil ELSE out.v,
                                 IF rec.op = "Remove" /\ out.err # Nil
                                      /\ out.err.code = StatusNotFound
                                 THEN Nil ELSE out.err)]

\* return secrs, response.Process(&secrs): out is what Process left in the
\* target and the error it gave (the variable is read after the call).
OnProcessed(rec, out) ==
    [rec EXCEPT !.pc = "done",
                !.ret = Returned(IF rec.op = "Remove" THEN Nil ELSE out.v, out.err)]

\* The name a Create or Remove invocation acts on, Nil if none.
Touched(inv) ==
    CASE inv.op = "Remove" -> inv.nameOrID
      [] inv.op = "Create" /\ inv.options # Nil -> inv.options.name
      [] OTHER -> Nil

\* What the calls completed so far have told the callers about each name: a
\* Create that succeeded tells its identity, a Remove that succeeded that the
\* name is gone, and one that failed after its request was issued tells
\* nothing. (Absent: nothing was ever created under the name.)
Learned(kn, rec) ==
    IF rec.pc # "done" \/ Touched(rec) = Nil THEN kn
    ELSE [kn EXCEPT ![Touched(rec)] =
            IF rec.ret.err # Nil THEN Unknown
            ELSE IF rec.op = "Remove" THEN Removed ELSE Present(rec.ret.result.ID)]

\* ------------------------------------------------------------------ actions

Init ==
    /\ call = [c \in Callers |-> Idle]
    /\ store = << >>
    /\ nextID = 1
    /\ ncalls = 0
    /\ known = [n \in Names |-> Absent]

\* A caller invokes one of the four functions; the function declares its
\* result variable (nil).
CallUpTo(c, limit) ==
    /\ call[c].pc \in {"idle", "done"}
    /\ ncalls < limit
    /\ \E inv \in Invocations :
          call' = [call EXCEPT
                        ![c] = [Idle EXCEPT !.pc = "GetClient", !.op = inv.op,
                                            !.nameOrID = inv.nameOrID,
                                            !.options = inv.options,
                                            !.reader = inv.reader],
                        ![ResultVar(c)].v = Nil]
    /\ ncalls' = ncalls + 1
    /\ UNCHANGED <<store, nextID, known>>

Call(c) == CallUpTo(c, MaxCalls)

SeqCall == CallUpTo("c1", MaxSeqCalls)

\* conn, err := bindings.GetClient(ctx)
GetClient(c) ==
    /\ call[c].pc = "GetClient"
    /\ \E err \in {Nil, ConnErr} :
          call' = [call EXCEPT ![c] =
                     IF err # Nil
                     THEN OnClientErr([@ EXCEPT !.connErr = err], err)
                     ELSE [@ EXCEPT !.pc = IF call[c].op = "Create" THEN "ToParams"
                                                                   ELSE "DoRequest"]]
    /\ UNCHANGED <<store, nextID, ncalls, known>>

\* params, err := options.ToParams()
ToParamsStep(c) ==
    /\ call[c].pc = "ToParams"
    /\ LET r == ToParams(call[c].options)
       IN call' = [call EXCEPT ![c] =
                     IF r.err # Nil THEN OnParamsErr(@, r.err)
                     ELSE [@ EXCEPT !.pc = "DoRequest", !.params = r.params]]
    /\ UNCHANGED <<store, nextID, ncalls, known>>

\* response, err := conn.DoRequest(...): the request is issued; it is lost on
\* the way ("refused"), or the server serves it and the answer is lost
\* ("lost"), arrives ("none"), or arrives from a server whose types differ
\* ("skew"). A reader handed over as the body is drained by the transport.
DoRequest(c) ==
    /\ call[c].pc = "DoRequest"
    /\ LET rec == call[c]
           req == RequestOf(rec)
           out == Serve(store, nextID, WireRequest(req))
           issued == [rec EXCEPT !.sent = Append(@, req)]
           drained == [issued EXCEPT !.reader =
                          IF @ = Nil THEN Nil ELSE Reader(@.data, Len(@.data))]
       IN \E fault \in {"refused", "lost", "none", "skew"} :
            IF fault = "refused"
            THEN /\ call' = [call EXCEPT ![c] =
                               OnRequestErr([issued EXCEPT !.reqErr = TransportErr,
                                                           !.fault = fault],
                                            call[ResultVar(c)].v, TransportErr)]
                 /\ UNCHANGED <<store, nextID>>
            ELSE /\ store' = out.store
                 /\ nextID' = out.nextID
                 /\ call' = [call EXCEPT ![c] =
                               IF fault = "lost"
                               THEN OnRequestErr([drained EXCEPT !.reqErr = TransportErr,
                                                                 !.fault = fault],
                                                 call[ResultVar(c)].v, TransportErr)
                               ELSE [drained EXCEPT
                                       !.pc = "Process", !.fault = fault,
                                       !.response = IF fault = "skew"
                                                    THEN Skewed(out.resp) ELSE out.resp]]
    /\ known' = Learned(known, call'[c])
    /\ UNCHANGED ncalls

\* return secrs, response.Process(&secrs)
Process(c) ==
    /\ call[c].pc = "Process"
    /\ LET rec == call[c]
           out == ProcessResponse(rec.response, ProcessTarget(rec.op),
                                  call[ResultVar(c)].v)
           done == OnProcessed([rec EXCEPT !.nproc = @ + 1], out)
       IN /\ call' = [call EXCEPT ![c] = done, ![ResultVar(c)].v = out.v]
          /\ known' = Learned(known, done)
    /\ UNCHANGED <<store, nextID, ncalls>>

Next ==
    \E c \in Callers :
        \/ Call(c)
        \/ GetClient(c)
        \/ ToParamsStep(c)
        \/ DoRequest(c)
        \/ Process(c)

Spec == Init /\ [][Next]_vars

\* One caller, one call after the other.
NextSeq ==
    \/ SeqCall
    \/ GetClient("c1")
    \/ ToParamsStep("c1")
    \/ DoRequest("c1")
    \/ Process("c1")

SpecSeq == Init /\ [][NextSeq]_vars

\* ------------------------------------------------------------------ claims

Done(c) == call[c].pc = "done"

\* The invocation's request reached a server that answers by the contract,
\* and the answer reached the invocation.
Answered(c) == call[c].response # Nil /\ call[c].fault = "none"

NotFound(err) == err.type = "api" /\ err.code = StatusNotFound

\* C1: every call of List, Inspect or Create returns exactly one of a
\* populated result and a non-nil error (Remove has no result to return).
C1_ExactlyOneOfResultAndError ==
    \A c \in Callers :
        Done(c) /\ call[c].op # "Remove" =>
            (call[c].ret.result # Nil) # (call[c].ret.err # Nil)

\* C2: Create called with a nil body stream issues no request and returns an
\* error.
C2_NilBodyFailsLocally ==
    \A c \in Callers :
        call[c].op = "Create" /\ call[c].reader = Nil =>
            /\ call[c].sent = <<>>
            /\ Done(c) => call[c].ret.err # Nil

\* With one caller and a server that stores secrets by name, when a call
\* is answered: an Inspect of a name whose last Create succeeded with
\* identity id returns that identity and name and no error; a Remove of such
\* a name succeeds; an Inspect of a name that was never created, or whose
\* Remove succeeded since, returns a nil result and a not-found API error; a
\* Create that succeeds returns the identity the server stored.
C3_Step ==
    \A c \in Callers :
        call[c].pc = "Process" /\ call'[c].pc = "done" /\ Answered(c) =>
            LET n == call[c].nameOrID
                ret == call'[c].ret
            IN /\ call[c].op = "Inspect" /\ known[n].st = "present" =>
                    ret = Returned(SecretInfoReport(known[n].id, n), Nil)
               /\ call[c].op = "Inspect" /\ known[n].st \in {"removed", "absent"} =>
                    ret.result = Nil /\ NotFound(ret.err)
               /\ call[c].op = "Remove" /\ known[n].st = "present" =>
                    ret.err = Nil /\ n \notin DOMAIN store
               /\ call[c].op = "Create" /\ ret.err = Nil =>
                    /\ call[c].options.name \in DOMAIN store
                    /\ store[call[c].options.name].id = ret.result.ID

\* C3: every step in which an answered Inspect, Remove or Create returns
\* agrees with what the calls before it returned (Create, Inspect, Remove,
\* Inspect: identity and name, success, then not-found).
C3_CreateInspectRemoveInspect == [][C3_Step]_vars

\* A secret was created and then removed, and the Inspect that followed was
\* answered with not-found.
C3_Witness ==
    /\ Done("c1") /\ call["c1"].op = "Inspect" /\ Answered("c1")
    /\ call["c1"].nameOrID = <<"a", "/", "b">>
    /\ known[<<"a", "/", "b">>].st = "removed"
    /\ NotFound(call["c1"].ret.err)
    /\ ncalls = MaxSeqCalls

\* C4: the request List issues carries the parameters its options encode to.
C4_ListRequestCarriesOptions ==
    \A c \in Callers :
        call[c].op = "List" /\ call[c].sent # <<>> =>
            call[c].sent[1].params = ToParams(call[c].options).params

\* The path of the wire contract for each operation, the identifier escaped.
ContractPath(op, name) ==
    CASE op = "List" -> <<"/", "secrets", "/", "json">>
      [] op = "Inspect" -> <<"/", "secrets", "/">> \o PathEscape(name) \o <<"/", "json">>
      [] op = "Create" -> <<"/", "secrets", "/", "create">>
      [] op = "Remove" -> <<"/", "secrets", "/">> \o PathEscape(name)

ContractVerb(op) ==
    CASE op = "List" -> "GET"
      [] op = "Inspect" -> "GET"
      [] op = "Create" -> "POST"
      [] op = "Remove" -> "DELETE"

\* C5: every request an operation issues has the operation's verb and path;
\* the identifier is the only path argument of Inspect and Remove; List,
\* Inspect and Remove send no body.
C5_VerbAndPath ==
    \A c \in Callers :
        \A i \in 1..Len(call[c].sent) :
            LET req == call[c].sent[i]
                op == call[c].op
            IN /\ req.method = ContractVerb(op)
               /\ WireRequest(req).path = ContractPath(op, call[c].nameOrID)
               /\ req.pathValues = IF op \in {"Inspect", "Remove"}
                                   THEN <<call[c].nameOrID>> ELSE <<>>
               /\ op # "Create" => req.body = Nil /\ WireRequest(req).body = <<>>

C5_Witness ==
    \E c, d \in Callers :
        /\ call[c].op = "Remove" /\ Len(call[c].sent) = 1
        /\ call[c].nameOrID = <<"a", "/", "b">>
        /\ call[d].op = "Inspect" /\ Len(call[d].sent) = 1

\* C6: an invocation issues at most one request, and exactly one when the
\* connection was acquired and (for Create) the options were encoded; after a
\* failed request or a processed response it has issued exactly one.
C6_OneRequest ==
    \A c \in Callers :
        /\ Len(call[c].sent) <= 1
        /\ Done(c) =>
              /\ Len(call[c].sent) = 1 <=>
                    /\ call[c].connErr = Nil
                    /\ call[c].op = "Create" => ToParams(call[c].options).err = Nil
              /\ call[c].reqErr # Nil \/ call[c].nproc > 0 => Len(call[c].sent) = 1
              /\ call[c].nproc <= 1

C6_Witness ==
    \E c, d \in Callers :
        /\ Done(c) /\ call[c].reqErr # Nil /\ Len(call[c].sent) = 1
        /\ Done(d) /\ call[d].nproc = 1 /\ call[d].ret.err # Nil

\* C7: Remove returns the error its response is processed into, and nil only
\* when the response is a success; a not-found answer comes back as the
\* not-found API error with the server's message.
C7_RemoveReportsServerStatus ==
    \A c \in Callers :
        Done(c) /\ call[c].op = "Remove" /\ call[c].response # Nil =>
            /\ call[c].ret.err = ProcessResponse(call[c].response, "none", Nil).err
            /\ call[c].ret.err = Nil <=> IsSuccess(call[c].response)
            /\ call[c].response.status = StatusNotFound =>
                  /\ NotFound(call[c].ret.err)
                  /\ call[c].ret.err.message = call[c].response.body.m.message.s

C7_Witness ==
    \E c \in Callers :
        /\ Done(c) /\ call[c].op = "Remove" /\ call[c].response # Nil
        /\ call[c].response.status = StatusNotFound

\* C8: a connection error is returned as it is and no request is issued; a
\* request error is returned as it is and no response is processed.
C8_ErrorsUnchanged ==
    \A c \in Callers :
        Done(c) =>
            /\ call[c].connErr # Nil =>
                  call[c].ret.err = call[c].connErr /\ call[c].sent = <<>>
            /\ call[c].reqErr # Nil =>
                  /\ call[c].ret.err = call[c].reqErr
                  /\ call[c].nproc = 0
                  /\ call[c].response = Nil

C8_Witness ==
    \E c, d \in Callers :
        /\ Done(c) /\ call[c].connErr # Nil
        /\ Done(d) /\ call[d].reqErr # Nil /\ call[d].op = "Create"

\* Two invocations with the same arguments.
SameArguments(c, d) ==
    /\ call[c].op = call[d].op
    /\ call[c].op # "none"
    /\ call[c].nameOrID = call[d].nameOrID
    /\ call[c].options = call[d].options
    /\ (call[c].reader = Nil) = (call[d].reader = Nil)
    /\ call[c].reader # Nil /\ call[d].reader # Nil =>
          call[c].reader.data = call[d].reader.data

\* ... to which the connection and the server answered the same.
SameAnswers(c, d) ==
    /\ call[c].connErr = call[d].connErr
    /\ call[c].reqErr = call[d].reqErr
    /\ call[c].response = call[d].response

\* C9: whatever the interleaving, the request an invocation issues is
\* determined by its own arguments, and the value it returns by its own
\* arguments and the answer to its own request.
C9_DeterminedByOwnCall ==
    \A c, d \in Callers :
        SameArguments(c, d) =>
            /\ call[c].sent # <<>> /\ call[d].sent # <<>> =>
                  call[c].sent[1] = call[d].sent[1]
            /\ Done(c) /\ Done(d) /\ SameAnswers(c, d) => call[c].ret = call[d].ret

C9_Witness ==
    \E c, d \in Callers :
        /\ c # d
        /\ SameArguments(c, d) /\ SameAnswers(c, d)
        /\ Done(c) /\ Done(d)
        /\ call[c].response # Nil
        /\ call[c].op = "Inspect"
        /\ call[c].ret.err = Nil

\* C10: the request Create issues has the caller's stream, unread, as its
\* body and the encoding of the options as its parameters; the body on the
\* wire is the stream's data alone; the stream goes to one request at most,
\* and to none, unread, when the options cannot be encoded.
C10_CreateBodyAndParams ==
    \A c \in Callers :
        call[c].op = "Create" =>
            /\ Len(call[c].sent) <= 1
            /\ call[c].sent # <<>> =>
                  LET req == call[c].sent[1]
                  IN /\ req.params = ToParams(call[c].options).params
                     /\ req.params = call[c].params
                     /\ (req.body = Nil) = (call[c].reader = Nil)
                     /\ req.body # Nil =>
                           /\ req.body = Reader(call[c].reader.data, 0)
                           /\ WireRequest(req).body = call[c].reader.data
            /\ ToParams(call[c].options).err # Nil =>
                  /\ call[c].sent = <<>>
                  /\ call[c].reader # Nil => call[c].reader.pos = 0

C10_Witness ==
    \E c, d \in Callers :
        /\ call[c].op = "Create" /\ Len(call[c].sent) = 1
        /\ call[c].reader # Nil /\ call[c].options # Nil
        /\ call[c].reader.pos = Len(call[c].reader.data)
        /\ call[d].op = "Create" /\ Done(d) /\ call[d].reader # Nil
        /\ call[d].connErr = Nil /\ ToParams(call[d].options).err # Nil

====
